---- MODULE Spec2Model ----
(***************************************************************************)
(* The CA-bundle reconciliation of the sidecar injector                    *)
(* (sidecar-injector/cmd/sidecar-injector/main.go, patchCertLoop):         *)
(* the startup sequence, the informer's update handler, the select loop    *)
(* with its retry timer, and the environment they run in (the CA file, the *)
(* MutatingWebhookConfiguration on the API server, time, shutdown).        *)
(***************************************************************************)
EXTENDS Integers, Sequences, FiniteSets, TLC

\* ------------------------------------------------------------- bounds
NumBundles == 2        \* distinct CA bundle contents
MaxFileEvents == 1     \* writes into the CA file's directory
MaxExternalEdits == 1  \* edits of the resource by other actors

\* ---------------------------------------------------------- constants
\* const delayedRetryTime = time.Second; one tick of the clock is a second.
delayedRetryTime == 1

\* flags.webhookName and the name of an entry this system does not own.
webhookName == "sidecar-injector.istio.io"

otherName == "other"

\* A CA bundle is a byte sequence; the nil slice is <<>>.
Bundles == {<<b>> : b \in 1..NumBundles}

VARIABLES
    pc,            \* position of patchCertLoop / RunE
    file,          \* the CA file: [content, ok] (ok = FALSE: unreadable)
    fsEvents,      \* events pending on watcher.Event
    readErrorLogged, \* log.Errorf("CA bundle file read error") was called
    caCertPem,     \* the held bundle
    stale,         \* earlier values of caCertPem an unsynchronised read may see
    retry,         \* var retry bool
    config,        \* the resource on the API server: [resourceVersion, webhooks]
    controller,    \* informer: "off", "listing", "watching", "stopped"
    store,         \* informer: the object it last saw (oldObj of the next update)
    events,        \* informer: update notifications not yet handled
    handler,       \* UpdateFunc: "idle", or "sending" on shouldPatch
    loopPc,        \* the loop goroutine: "off", "select", "patching"
    delayedRetryC, \* <<>> (nil channel) or <<timer>>
    trigger,       \* what started the patch call in flight
    patchArg,      \* the bundle passed to the patch call in flight
    inFlight,      \* patch calls in flight
    lastResult,    \* "none", "ok", "fail": result of the latest patch attempt
    lastPatched,   \* the bundle of the latest successful patch, <<>> if none
    sinceFail,     \* ticks since the latest failed attempt (saturating)
    fileEdits,     \* FileWrite steps taken
    externalEdits, \* ExternalEdit steps taken
    stopped        \* stop channel closed

vars == <<pc, file, fsEvents, readErrorLogged, caCertPem, stale, retry, config, controller, store,
          events, handler, loopPc, delayedRetryC, trigger, patchArg, inFlight,
          lastResult, lastPatched, sinceFail, fileEdits, externalEdits, stopped>>

startupVars == <<pc, retry>>

fileVars == <<file, fsEvents, fileEdits>>

informerVars == <<controller, store, events, handler>>

loopVars == <<loopPc, delayedRetryC, readErrorLogged>>

patchVars == <<trigger, patchArg, inFlight, lastResult, lastPatched, sinceFail>>

envVars == <<externalEdits, stopped>>

\* ------------------------------------------------------------ helpers
\* ioutil.ReadFile(flags.caCertFile)
ReadFile == [err |-> ~file.ok, b |-> IF file.ok THEN file.content ELSE <<>>]

\* The directory watch is established (watcher.Watch returned nil).
Watching == pc \in {"patch", "patching", "informer", "loop", "returned"}

\* Mutant of TimeAfter: the duration is dropped, the channel delivers at once.
TimeAfter_NoDelay(d) == <<[left |-> 0, age |-> 0]>>

\* time.After(d): a fresh channel that delivers once d has elapsed; age counts
\* the ticks since it was made.
TimeAfter(d) == <<[left |-> d, age |-> 0]>>

\* A receive from the channel can proceed.
TimerReady(c) == Len(c) > 0 /\ c[1].left = 0

\* Mutant of PatchWebhooks: the CA bundle of every entry is replaced.
PatchWebhooks_AllEntries(whs, name, b) ==
    [i \in DOMAIN whs |-> [whs[i] EXCEPT !.caBundle = b]]

\* The partial update: the CA bundle of every entry named name becomes b.
PatchWebhooks(whs, name, b) ==
    [i \in DOMAIN whs |->
        IF whs[i].name = name THEN [whs[i] EXCEPT !.caBundle = b] ELSE whs[i]]

\* The resource after a change of its webhooks by anyone.
Written(whs) == [resourceVersion |-> config.resourceVersion + 1, webhooks |-> whs]

\* The watch delivers a modification to the informer once it has listed.
Notify(obj) == IF controller = "watching" THEN Append(events, obj) ELSE events

\* util.PatchMutatingWebhookConfig returning: ok = FALSE is a PatchError.
PatchReturns(ok) ==
    LET whs == PatchWebhooks(config.webhooks, webhookName, patchArg)
        changed == ok /\ whs # config.webhooks
    IN  /\ inFlight' = inFlight - 1
        /\ trigger' = "none"
        /\ patchArg' = <<>>
        /\ lastResult' = IF ok THEN "ok" ELSE "fail"
        /\ lastPatched' = IF ok THEN patchArg ELSE lastPatched
        /\ sinceFail' = IF ok THEN sinceFail ELSE 0
        /\ config' = IF changed THEN Written(whs) ELSE config
        /\ events' = IF changed THEN Notify(Written(whs)) ELSE events

\* A patch call starts with bundle b.
PatchCalled(why, b) ==
    /\ inFlight' = inFlight + 1
    /\ trigger' = why
    /\ patchArg' = b
    /\ UNCHANGED <<lastResult, lastPatched, sinceFail>>

\* ------------------------------------------------------------- Init
\* The resource as the process finds it: the target entry may be absent.
NameLists == {<<otherName, webhookName>>, <<otherName, otherName>>}

WebhookLists ==
    {<<[name |-> ns[1], caBundle |-> <<1>>], [name |-> ns[2], caBundle |-> b]>> :
        ns \in NameLists, b \in Bundles}

Init ==
    /\ pc = "createClient"
    /\ file \in [content : {<<1>>}, ok : BOOLEAN]
    /\ fsEvents = 0
    /\ readErrorLogged = FALSE
    /\ caCertPem = <<>>
    /\ stale = {}
    /\ retry = FALSE
    /\ config \in [resourceVersion : {1}, webhooks : WebhookLists]
    /\ controller = "off"
    /\ store = [resourceVersion |-> 0, webhooks |-> <<>>]
    /\ events = <<>>
    /\ handler = "idle"
    /\ loopPc = "off"
    /\ delayedRetryC = <<>>
    /\ trigger = "none"
    /\ patchArg = <<>>
    /\ inFlight = 0
    /\ lastResult = "none"
    /\ lastPatched = <<>>
    /\ sinceFail = delayedRetryTime
    /\ fileEdits = 0
    /\ externalEdits = 0
    /\ stopped = FALSE

\* ---------------------------------------------------------- startup
\* kube.CreateClientset
CreateClientset ==
    /\ pc = "createClient"
    /\ \E ok \in BOOLEAN : pc' = IF ok THEN "readFile" ELSE "failed"
    /\ UNCHANGED <<retry, caCertPem, stale, config>>
    /\ UNCHANGED <<fileVars, informerVars, loopVars, patchVars, envVars>>

\* caCertPem, err := ioutil.ReadFile(flags.caCertFile)
ReadCaCertFile ==
    /\ pc = "readFile"
    /\ IF ReadFile.err
          THEN pc' = "failed" /\ UNCHANGED caCertPem
          ELSE pc' = "watch" /\ caCertPem' = ReadFile.b
    /\ UNCHANGED <<retry, stale, config>>
    /\ UNCHANGED <<fileVars, informerVars, loopVars, patchVars, envVars>>

\* Mutant of WatchDir: the informer is started before the watch is set up.
WatchDir_AfterInformer ==
    /\ pc = "watch"
    /\ \E ok \in BOOLEAN : pc' = IF ok THEN "patch" ELSE "failed"
    /\ controller' = "listing"
    /\ UNCHANGED <<retry, caCertPem, stale, config, store, events, handler>>
    /\ UNCHANGED <<fileVars, loopVars, patchVars, envVars>>

\* fsnotify.NewWatcher and watcher.Watch(watchDir)
WatchDir ==
    /\ pc = "watch"
    /\ \E ok \in BOOLEAN : pc' = IF ok THEN "patch" ELSE "failed"
    /\ UNCHANGED <<retry, caCertPem, stale, config>>
    /\ UNCHANGED <<fileVars, informerVars, loopVars, patchVars, envVars>>

\* The startup call of util.PatchMutatingWebhookConfig
StartupPatchCall ==
    /\ pc = "patch"
    /\ pc' = "patching"
    /\ PatchCalled("startup", caCertPem)
    /\ UNCHANGED <<retry, caCertPem, stale, config>>
    /\ UNCHANGED <<fileVars, informerVars, loopVars, envVars>>

\* ... and its return: err != nil sets retry
StartupPatchReturn ==
    /\ pc = "patching"
    /\ \E ok \in BOOLEAN : PatchReturns(ok) /\ retry' = ~ok
    /\ pc' = "informer"
    /\ UNCHANGED <<caCertPem, stale, controller, store, handler>>
    /\ UNCHANGED <<fileVars, loopVars, envVars>>

\* cache.NewInformer and go controller.Run(stopCh)
GoControllerRun ==
    /\ pc = "informer"
    /\ pc' = "loop"
    /\ controller' = IF stopped THEN "stopped" ELSE "listing"
    /\ stale' = {}
    /\ UNCHANGED <<retry, caCertPem, config, store, events, handler>>
    /\ UNCHANGED <<fileVars, loopVars, patchVars, envVars>>

\* Mutant of InitialRetryC: the startup patch's failure arms no timer.
InitialRetryC_Nil == <<>>

\* The timer the loop goroutine starts with.
InitialRetryC == IF retry THEN TimeAfter(delayedRetryTime) ELSE <<>>

\* go func() { ... }() and return nil
GoLoop ==
    /\ pc = "loop"
    /\ pc' = "returned"
    /\ loopPc' = "select"
    /\ delayedRetryC' = InitialRetryC
    /\ UNCHANGED readErrorLogged
    /\ UNCHANGED <<retry, caCertPem, stale, config>>
    /\ UNCHANGED <<fileVars, informerVars, patchVars, envVars>>

\* ------------------------------------------------------------- loop
\* Mutant of LoopReady: the next event is selected while a handler still runs.
LoopReady_Concurrent == loopPc \in {"select", "patching"}

\* The loop is at its select statement.
LoopReady == loopPc = "select"

\* Mutant of SelectDelayedRetryC: the retry re-reads the file for its bundle.
SelectDelayedRetryC_Reread ==
    /\ LoopReady
    /\ TimerReady(delayedRetryC)
    /\ loopPc' = "patching"
    /\ PatchCalled("timer", file.content)
    /\ UNCHANGED <<delayedRetryC, readErrorLogged, caCertPem, stale, config>>
    /\ UNCHANGED <<startupVars, fileVars, informerVars, envVars>>

\* Mutant of SelectDelayedRetryC: the timer's case is taken only when no other
\* case is ready.
SelectDelayedRetryC_LowPriority ==
    /\ LoopReady
    /\ TimerReady(delayedRetryC)
    /\ fsEvents = 0 /\ handler # "sending"
    /\ loopPc' = "patching"
    /\ PatchCalled("timer", caCertPem)
    /\ UNCHANGED <<delayedRetryC, readErrorLogged, caCertPem, stale, config>>
    /\ UNCHANGED <<startupVars, fileVars, informerVars, envVars>>

\* case <-delayedRetryC: doPatch(client, caCertPem)
SelectDelayedRetryC ==
    /\ LoopReady
    /\ TimerReady(delayedRetryC)
    /\ loopPc' = "patching"
    /\ PatchCalled("timer", caCertPem)
    /\ UNCHANGED <<delayedRetryC, readErrorLogged, caCertPem, stale, config>>
    /\ UNCHANGED <<startupVars, fileVars, informerVars, envVars>>

\* Mutant of SelectShouldPatch: the loop receives a request only while no
\* timer is armed.
SelectShouldPatch_WhenNoTimer ==
    /\ LoopReady
    /\ delayedRetryC = <<>>
    /\ handler = "sending"
    /\ handler' = "idle"
    /\ stale' = {}
    /\ loopPc' = "patching"
    /\ PatchCalled("shouldPatch", caCertPem)
    /\ UNCHANGED <<delayedRetryC, readErrorLogged, caCertPem, config>>
    /\ UNCHANGED <<controller, store, events>>
    /\ UNCHANGED <<startupVars, fileVars, envVars>>

\* case <-shouldPatch: doPatch(client, caCertPem); the receive releases the
\* handler blocked in its send, and orders the loop's earlier writes before
\* the handler's later reads.
SelectShouldPatch ==
    /\ LoopReady
    /\ handler = "sending"
    /\ handler' = "idle"
    /\ stale' = {}
    /\ loopPc' = "patching"
    /\ PatchCalled("shouldPatch", caCertPem)
    /\ UNCHANGED <<delayedRetryC, readErrorLogged, caCertPem, config>>
    /\ UNCHANGED <<controller, store, events>>
    /\ UNCHANGED <<startupVars, fileVars, envVars>>

\* Mutant of SelectWatcherEvent: the read error is logged and the patch is
\* attempted all the same, with what ReadFile returned.
SelectWatcherEvent_PatchOnError ==
    /\ LoopReady
    /\ fsEvents > 0
    /\ fsEvents' = fsEvents - 1
    /\ readErrorLogged' = (readErrorLogged \/ ReadFile.err)
    /\ caCertPem' = ReadFile.b
    /\ stale' = (stale \cup {caCertPem}) \ {ReadFile.b}
    /\ loopPc' = "patching"
    /\ PatchCalled("file", ReadFile.b)
    /\ UNCHANGED <<delayedRetryC, config, file, fileEdits>>
    /\ UNCHANGED <<startupVars, informerVars, envVars>>

\* Mutant of SelectWatcherEvent: bytes equal to the held bundle are not
\* patched again.
SelectWatcherEvent_SkipIfSame ==
    /\ LoopReady
    /\ fsEvents > 0
    /\ fsEvents' = fsEvents - 1
    /\ IF ReadFile.err \/ ReadFile.b = caCertPem
          THEN /\ readErrorLogged' = (readErrorLogged \/ ReadFile.err)
               /\ UNCHANGED <<loopPc, caCertPem, stale, patchVars>>
          ELSE /\ caCertPem' = ReadFile.b
               /\ UNCHANGED readErrorLogged
               /\ stale' = (stale \cup {caCertPem}) \ {ReadFile.b}
               /\ loopPc' = "patching"
               /\ PatchCalled("file", ReadFile.b)
    /\ UNCHANGED <<delayedRetryC, config, file, fileEdits>>
    /\ UNCHANGED <<startupVars, informerVars, envVars>>

\* case <-watcher.Event: re-read the file; patch if the read succeeded
SelectWatcherEvent ==
    /\ LoopReady
    /\ fsEvents > 0
    /\ fsEvents' = fsEvents - 1
    /\ IF ReadFile.err
          THEN /\ readErrorLogged' = TRUE
               /\ UNCHANGED <<loopPc, caCertPem, stale, patchVars>>
          ELSE /\ caCertPem' = ReadFile.b
               /\ UNCHANGED readErrorLogged
               /\ stale' = (stale \cup {caCertPem}) \ {ReadFile.b}
               /\ loopPc' = "patching"
               /\ PatchCalled("file", ReadFile.b)
    /\ UNCHANGED <<delayedRetryC, config, file, fileEdits>>
    /\ UNCHANGED <<startupVars, informerVars, envVars>>

\* The timer after the patch of a timer expiry returned.
AfterRetry(failed) == IF failed THEN TimeAfter(delayedRetryTime) ELSE <<>>

\* Mutant of AfterEvent: every failure sets a new deadline.
AfterEvent_Reset(failed, c) == IF failed THEN TimeAfter(delayedRetryTime) ELSE <<>>

\* Mutant of AfterEvent: a failure of an event's patch arms no timer.
AfterEvent_NoArm(failed, c) == IF failed THEN c ELSE <<>>

\* The timer after the patch of a shouldPatch or file event returned.
AfterEvent(failed, c) ==
    IF failed THEN (IF c = <<>> THEN TimeAfter(delayedRetryTime) ELSE c) ELSE <<>>

\* doPatch returns to the branch that called it
DoPatchReturn ==
    /\ loopPc = "patching"
    /\ \E ok \in BOOLEAN :
          /\ PatchReturns(ok)
          /\ delayedRetryC' = IF trigger = "timer"
                                 THEN AfterRetry(~ok)
                                 ELSE AfterEvent(~ok, delayedRetryC)
    /\ loopPc' = "select"
    /\ UNCHANGED <<readErrorLogged, caCertPem, stale, controller, store, handler>>
    /\ UNCHANGED <<startupVars, fileVars, envVars>>

\* --------------------------------------------------------- informer
\* The initial list: the object is added to the store; no AddFunc is set.
InformerList ==
    /\ controller = "listing"
    /\ controller' = "watching"
    /\ store' = config
    /\ UNCHANGED <<events, handler, caCertPem, stale, config>>
    /\ UNCHANGED <<startupVars, fileVars, loopVars, patchVars, envVars>>

\* The values of caCertPem a read in the handler can return: the read is not
\* synchronised with the loop's write.
Visible == {caCertPem} \cup stale

\* Mutant of ShouldEmit: the entry is compared with the last patched bundle.
ShouldEmit_LastPatched(oldConfig, newConfig, seen) ==
    /\ oldConfig.resourceVersion # newConfig.resourceVersion
    /\ \E i \in DOMAIN newConfig.webhooks :
          /\ newConfig.webhooks[i].name = webhookName
          /\ newConfig.webhooks[i].caBundle # lastPatched

\* UpdateFunc's test; seen[i] is what the read of caCertPem returns for entry i.
ShouldEmit(oldConfig, newConfig, seen) ==
    /\ oldConfig.resourceVersion # newConfig.resourceVersion
    /\ \E i \in DOMAIN newConfig.webhooks :
          /\ newConfig.webhooks[i].name = webhookName
          /\ newConfig.webhooks[i].caBundle # seen[i]

\* UpdateFunc(oldObj, newObj), up to its send on shouldPatch
UpdateFunc ==
    /\ controller = "watching"
    /\ handler = "idle"
    /\ events # <<>>
    /\ LET newConfig == Head(events)
       IN  \E seen \in [DOMAIN newConfig.webhooks -> Visible] :
              handler' = IF ShouldEmit(store, newConfig, seen) THEN "sending" ELSE "idle"
    /\ store' = Head(events)
    /\ events' = Tail(events)
    /\ UNCHANGED <<controller, caCertPem, stale, config>>
    /\ UNCHANGED <<startupVars, fileVars, loopVars, patchVars, envVars>>

\* The watch stream ends and the reflector lists again: the listed object is
\* delivered as an update of the stored one. Behind pending notifications it
\* would repeat the last of them, so it is taken with none pending.
Relist ==
    /\ controller = "watching"
    /\ events = <<>>
    /\ events' = <<config>>
    /\ UNCHANGED <<controller, store, handler, caCertPem, stale, config>>
    /\ UNCHANGED <<externalEdits, stopped>>
    /\ UNCHANGED <<startupVars, fileVars, loopVars, patchVars>>

\* ------------------------------------------------------ environment
\* The rotation agent writes into the directory of the CA file.
FileWrite ==
    /\ fileEdits < MaxFileEvents
    /\ fileEdits' = fileEdits + 1
    /\ \E b \in Bundles, ok \in BOOLEAN : file' = [content |-> b, ok |-> ok]
    /\ fsEvents' = IF Watching THEN fsEvents + 1 ELSE fsEvents
    /\ UNCHANGED <<caCertPem, stale, config>>
    /\ UNCHANGED <<startupVars, informerVars, loopVars, patchVars, envVars>>

\* Another actor writes the resource: it sets the CA bundle of a target-named
\* entry (b is a bundle), or a field outside the entries' CA bundles (b = <<>>).
Edited(whs, i, b) == IF b = <<>> THEN whs ELSE [whs EXCEPT ![i].caBundle = b]

ExternalEdit ==
    /\ externalEdits < MaxExternalEdits
    /\ externalEdits' = externalEdits + 1
    /\ \E i \in DOMAIN config.webhooks, b \in Bundles \cup {<<>>} :
          /\ b = <<>> => i = 1
          /\ b # <<>> => config.webhooks[i].name = webhookName
          /\ config.webhooks[i].caBundle # b
          /\ LET obj == Written(Edited(config.webhooks, i, b))
             IN  config' = obj /\ events' = Notify(obj)
    /\ UNCHANGED <<controller, store, handler, caCertPem, stale>>
    /\ UNCHANGED stopped
    /\ UNCHANGED <<startupVars, fileVars, loopVars, patchVars>>

\* A second passes.
Aged(c) ==
    IF c = <<>> THEN c
    ELSE <<[left |-> IF c[1].left > 0 THEN c[1].left - 1 ELSE 0,
            age |-> IF c[1].age < delayedRetryTime THEN c[1].age + 1 ELSE c[1].age]>>

Tick ==
    /\ delayedRetryC' = Aged(delayedRetryC)
    /\ sinceFail' = IF sinceFail < delayedRetryTime THEN sinceFail + 1 ELSE sinceFail
    /\ <<delayedRetryC', sinceFail'>> # <<delayedRetryC, sinceFail>>
    /\ UNCHANGED <<loopPc, readErrorLogged, caCertPem, stale, config>>
    /\ UNCHANGED <<trigger, patchArg, inFlight, lastResult, lastPatched>>
    /\ UNCHANGED <<startupVars, fileVars, informerVars, envVars>>

\* cmd.WaitSignal(stop) closes the stop channel; controller.Run returns.
CloseStop ==
    /\ pc = "returned"
    /\ ~stopped
    /\ stopped' = TRUE
    /\ controller' = "stopped"
    /\ UNCHANGED <<store, events, handler, caCertPem, stale, config>>
    /\ UNCHANGED externalEdits
    /\ UNCHANGED <<startupVars, fileVars, loopVars, patchVars>>

Startup ==
    \/ CreateClientset
    \/ ReadCaCertFile
    \/ WatchDir
    \/ StartupPatchCall
    \/ StartupPatchReturn
    \/ GoControllerRun
    \/ GoLoop

Loop ==
    \/ SelectDelayedRetryC
    \/ SelectShouldPatch
    \/ SelectWatcherEvent
    \/ DoPatchReturn

Informer ==
    \/ InformerList
    \/ UpdateFunc
    \/ Relist

Environment ==
    \/ FileWrite
    \/ ExternalEdit
    \/ Tick
    \/ CloseStop

Next == Startup \/ Loop \/ Informer \/ Environment

Spec == Init /\ [][Next]_vars

\* The watched directory keeps being written without a change of the CA
\* file's content: a file event is added whenever the watcher's channel has
\* room, without end.
FileStorm ==
    /\ Watching
    /\ fsEvents < MaxFileEvents
    /\ fsEvents' = fsEvents + 1
    /\ UNCHANGED <<file, fileEdits, caCertPem, stale, config>>
    /\ UNCHANGED <<startupVars, informerVars, loopVars, patchVars, envVars>>

LiveNext ==
    \/ Startup
    \/ Loop
    \/ Informer
    \/ FileStorm
    \/ ExternalEdit
    \/ Tick
    \/ CloseStop

\* patchCertLoop runs on and every patch call returns; the select statement
\* chooses uniformly at random among its ready cases, so a case that is ready
\* again and again is chosen in the end.
LiveFairness ==
    /\ WF_vars(Startup)
    /\ WF_vars(DoPatchReturn)
    /\ SF_vars(SelectDelayedRetryC)
    /\ SF_vars(SelectShouldPatch)
    /\ SF_vars(SelectWatcherEvent)

LiveSpec == Init /\ [][LiveNext]_vars /\ LiveFairness

TypeOK ==
    /\ inFlight \in 0..1
    /\ fsEvents \in 0..MaxFileEvents
    /\ caCertPem \in Bundles \cup {<<>>}
    /\ stale \subseteq Bundles

\* ----------------------------------------------------------- claims
\* The indices of the entries of whs named webhookName.
Targets(whs) == {i \in DOMAIN whs : whs[i].name = webhookName}

\* Nothing is pending anywhere: no timer, no event, no handler, no call.
Quiescent ==
    /\ pc = "returned"
    /\ ~stopped
    /\ loopPc = "select"
    /\ delayedRetryC = <<>>
    /\ fsEvents = 0
    /\ controller = "watching"
    /\ events = <<>>
    /\ handler = "idle"

\* C1: convergence. Once nothing is pending and the last patch succeeded, the
\* target entry's CA bundle equals the most recently read file content (only
\* a new external change can start anything from such a state).
C1_Convergence ==
    Quiescent => \A i \in Targets(config.webhooks) :
                    config.webhooks[i].caBundle = caCertPem

\* C2: single-flight. At most one patch call is in flight, and it is the
\* startup call or the call of the one handler the loop is running.
C2_SingleFlight ==
    /\ inFlight <= 1
    /\ inFlight = 1 <=> (pc = "patching" \/ loopPc = "patching")
    /\ ~(pc = "patching" /\ loopPc = "patching")

\* A patch call is in flight while a file event and a divergence event wait.
C2_Witness ==
    /\ inFlight = 1
    /\ loopPc = "patching"
    /\ fsEvents > 0
    /\ handler = "sending"

\* C3: whenever the loop waits at its select, the retry timer is armed if and
\* only if the most recent patch attempt (the startup one included) failed.
C3_TimerIffLastFailed ==
    loopPc = "select" => (delayedRetryC # <<>> <=> lastResult = "fail")

\* The loop waits with the timer armed after a failure that followed an
\* earlier success of the patcher.
C3_Witness ==
    /\ loopPc = "select"
    /\ lastResult = "fail"
    /\ lastPatched # <<>>
    /\ delayedRetryC # <<>>

\* A patch call starts in this step.
AttemptStarts == inFlight' = inFlight + 1

\* C4 as claimed: after a failing attempt no attempt starts before
\* delayedRetryTime has elapsed since that failure.
C4_Backoff ==
    [][(AttemptStarts /\ lastResult = "fail") => sinceFail >= delayedRetryTime]_vars

\* C4 amended: an attempt made for the timer's expiry starts no earlier than
\* delayedRetryTime after the timer was armed.
C4_RetryAfterDelay ==
    [][(AttemptStarts /\ trigger' = "timer") =>
          (delayedRetryC # <<>> /\ delayedRetryC[1].age >= delayedRetryTime)]_vars

\* A timer retry is in flight less than delayedRetryTime after the latest
\* failure: an event's attempt failed while the timer was pending.
C4_Witness ==
    /\ trigger = "timer"
    /\ inFlight = 1
    /\ sinceFail < delayedRetryTime

\* C5: after the stop channel is closed and the attempt then in flight has
\* returned, no patch attempt starts.
C5_NoAttemptAfterStop ==
    [][(stopped /\ inFlight = 0) => inFlight' = 0]_vars

\* C6: the handler is never held in its send on shouldPatch while the loop is
\* busy in a patch call.
C6_EmitNeverBlocks == ~(handler = "sending" /\ loopPc = "patching")

\* UpdateFunc takes the next notification in this step.
UpdateStep == events # <<>> /\ events' = Tail(events) /\ store' = Head(events)

\* The update shows no divergence from the held bundle.
NoDivergence(oldConfig, newConfig) ==
    \/ oldConfig.resourceVersion = newConfig.resourceVersion
    \/ \A i \in Targets(newConfig.webhooks) :
          newConfig.webhooks[i].caBundle = caCertPem

\* C7: an update whose target entry holds the held bundle (or whose resource
\* version is unchanged, or that has no target entry) emits no request.
C7_NoEmitWithoutDivergence ==
    [][(UpdateStep /\ NoDivergence(store, Head(events))) => handler' = "idle"]_vars

C9_FatalSetupNoEffects ==
    pc = "failed" =>
        /\ lastResult = "none"
        /\ inFlight = 0
        /\ lastPatched = <<>>
        /\ controller = "off"
        /\ loopPc = "off"
        /\ config.resourceVersion = 1 + externalEdits

\* patchCertLoop has returned an error after the file was read: the watch
\* could not be set up.
C9_Witness == pc = "failed" /\ caCertPem # <<>>

\* C10: a file event whose re-read fails starts no patch attempt and leaves
\* the held bundle and the timer as they were; the loop is back at its select.
C10_ReadErrorSkips ==
    [][(LoopReady /\ fsEvents' = fsEvents - 1 /\ ReadFile.err) =>
          /\ loopPc' = "select"
          /\ inFlight' = inFlight
          /\ lastResult' = lastResult
          /\ caCertPem' = caCertPem
          /\ delayedRetryC' = delayedRetryC
          /\ config' = config]_vars

\* A file event was skipped for a read error while the timer was armed, and
\* the loop is at its select with the timer still armed.
C10_Witness ==
    /\ readErrorLogged
    /\ loopPc = "select"
    /\ delayedRetryC # <<>>
    /\ fsEvents = 0

\* doPatch returns in this step, with success.
PatchSucceeds == inFlight' = inFlight - 1 /\ lastResult' = "ok"

\* C11: field isolation. A successful patch with bundle Z leaves the number,
\* the order and the names of the entries as they were, sets the CA bundle of
\* the target-named entries to Z and leaves every other entry unchanged.
C11_FieldIsolation ==
    [][PatchSucceeds =>
          /\ DOMAIN config'.webhooks = DOMAIN config.webhooks
          /\ \A i \in DOMAIN config.webhooks :
                IF config.webhooks[i].name = webhookName
                   THEN config'.webhooks[i] = [name |-> webhookName, caBundle |-> patchArg]
                   ELSE config'.webhooks[i] = config.webhooks[i]]_vars

\* The resource [{other, X}, {target, Y}] has become [{other, X}, {target, Z}]
\* by a patch with Z, Z # X, and by nothing else.
C11_Witness ==
    /\ externalEdits = 0
    /\ config.resourceVersion = 2
    /\ lastPatched # <<>>
    /\ config.webhooks[1].name = otherName
    /\ config.webhooks[1].caBundle # lastPatched
    /\ config.webhooks[2] = [name |-> webhookName, caBundle |-> lastPatched]

\* The loop's doPatch returns in this step.
HandlerReturns == loopPc = "patching" /\ loopPc' = "select"

\* C12: a failing attempt of a file or divergence event leaves an armed timer
\* as it is; a failing attempt of the timer's expiry sets a new deadline,
\* delayedRetryTime from now.
C12_DeadlineKept ==
    [][(HandlerReturns /\ lastResult' = "fail") =>
          IF trigger = "timer"
             THEN delayedRetryC' = <<[left |-> delayedRetryTime, age |-> 0]>>
             ELSE delayedRetryC # <<>> => delayedRetryC' = delayedRetryC]_vars

\* The latest attempt has just failed and the timer is older than that: the
\* failure was an event's and the deadline was kept.
C12_Witness ==
    /\ loopPc = "select"
    /\ lastResult = "fail"
    /\ sinceFail = 0
    /\ delayedRetryC # <<>>
    /\ delayedRetryC[1].age > 0

\* C13: the held bundle changes only by a successful read of the file, to the
\* bytes read; every patch attempt passes the held bundle, and only the
\* attempt of a file event reads the file for it.
C13_PatchesHeldBundle ==
    [][/\ caCertPem' # caCertPem => (~ReadFile.err /\ caCertPem' = ReadFile.b)
       /\ AttemptStarts =>
             /\ patchArg' = caCertPem'
             /\ trigger' # "file" => caCertPem' = caCertPem]_vars

\* A timer retry is in flight with a bundle other than the last patched one:
\* the bytes read for a file change whose patch failed.
C13_Witness ==
    /\ trigger = "timer"
    /\ inFlight = 1
    /\ lastPatched # <<>>
    /\ patchArg # lastPatched

\* C14: the startup patch is attempted with the bundle read, before the
\* informer and the loop exist; its failure is not an error of patchCertLoop;
\* the loop starts with the timer armed for delayedRetryTime if it failed and
\* with none if it succeeded.
C14_Startup ==
    [][/\ (pc = "patching" /\ pc' # "patching") =>
             /\ pc' = "informer"
             /\ trigger = "startup" /\ patchArg = caCertPem
             /\ controller = "off" /\ loopPc = "off"
       /\ (loopPc = "off" /\ loopPc' # "off") =>
             /\ pc' = "returned"
             /\ loopPc' = "select"
             /\ lastResult \in {"ok", "fail"}
             /\ delayedRetryC' = IF lastResult = "fail"
                                    THEN <<[left |-> delayedRetryTime, age |-> 0]>>
                                    ELSE <<>>]_vars

\* patchCertLoop has returned nil after a failed startup patch, and the loop
\* waits with the timer armed and not yet expired.
C14_Witness ==
    /\ pc = "returned"
    /\ loopPc = "select"
    /\ lastResult = "fail"
    /\ lastPatched = <<>>
    /\ fileEdits = 0
    /\ delayedRetryC = <<[left |-> delayedRetryTime, age |-> 0]>>

\* C16: no write of the held bundle by the loop is unordered with a read of
\* it by the informer's update handler: whenever the handler runs, the only
\* value its read of caCertPem can return is the loop's current one.
C16_LoopOwnsBundle == [][UpdateStep => Visible = {caCertPem}]_vars

\* The loop takes a file event off the watcher's channel.
FileEventTaken == loopPc = "select" /\ fsEvents' = fsEvents - 1

\* C17: a file event whose re-read succeeds starts exactly one patch attempt,
\* with the bytes read, whatever the resource holds and whether or not a
\* timer is armed.
C17_FileEventPatches ==
    [][(FileEventTaken /\ ~ReadFile.err) =>
          /\ inFlight = 0 /\ inFlight' = 1
          /\ loopPc' = "patching"
          /\ trigger' = "file"
          /\ patchArg' = ReadFile.b]_vars

\* The attempt of a file event is in flight while a timer is armed and every
\* target-named entry of the resource already holds the bytes read.
C17_Witness ==
    /\ trigger = "file"
    /\ inFlight = 1
    /\ delayedRetryC # <<>>
    /\ Targets(config.webhooks) # {}
    /\ \A i \in Targets(config.webhooks) : config.webhooks[i].caBundle = patchArg

\* C18: once the loop waits with no file event left to handle, a readable
\* file holds the bytes of the held bundle: every change of the content made
\* since the startup read has been re-read.
C18_FileChangeReread ==
    (pc = "returned" /\ loopPc = "select" /\ fsEvents = 0 /\ file.ok)
        => file.content = caCertPem

\* The informer's initial list returns in this step.
FirstObserved == controller = "listing" /\ controller' = "watching"

\* C19: when the initial list, made after a successful startup patch, shows a
\* target-named entry whose CA bundle differs from the held bundle, a
\* reconciliation request is emitted.
C19_FirstObservationEmits ==
    [][(FirstObserved /\ lastResult = "ok" /\ \E i \in Targets(config.webhooks) :
                            config.webhooks[i].caBundle # caCertPem)
          => handler' = "sending"]_vars

\* C15: no starvation. An expired timer is in the end handled, by a retry or
\* by the success of an event's patch that disarms it, while file events keep
\* arriving; a full channel of file events is in the end read from and a
\* blocked reconciliation request is in the end received, while retries keep
\* failing.
C15_NoStarvation ==
    /\ (loopPc # "off" /\ TimerReady(delayedRetryC))
           ~> (trigger = "timer" \/ delayedRetryC = <<>>)
    /\ (fsEvents = MaxFileEvents) ~> (fsEvents < MaxFileEvents)
    /\ (handler = "sending") ~> (handler = "idle")

\* All three cases of the select are ready at once.
C15_Witness ==
    /\ loopPc = "select"
    /\ TimerReady(delayedRetryC)
    /\ fsEvents > 0
    /\ handler = "sending"

\* C20: deadlock freedom. Before shutdown the running loop is inside exactly
\* one patch attempt or at its select, where every ready case can be taken;
\* a handler blocked in its send is in the end released by the loop.
C20_DeadlockFree ==
    /\ []((loopPc # "off" /\ ~stopped) =>
            \/ loopPc = "patching" /\ inFlight = 1
            \/ /\ loopPc = "select" /\ inFlight = 0
               /\ TimerReady(delayedRetryC) => ENABLED SelectDelayedRetryC
               /\ handler = "sending" => ENABLED SelectShouldPatch
               /\ fsEvents > 0 => ENABLED SelectWatcherEvent)
    /\ (handler = "sending") ~> (handler = "idle")

\* The handler is blocked in its send while the loop is inside a patch
\* attempt with a timer armed.
C20_Witness ==
    /\ handler = "sending"
    /\ loopPc = "patching"
    /\ inFlight = 1
    /\ delayedRetryC # <<>>
    /\ ~stopped

====
